---- MODULE Spec2Model ----
(***************************************************************************)
(* The move state-change journal of the game engine (state.ts): the        *)
(* recorder functions that queue StateChange records on a Move, and the    *)
(* replay functions applyMove / applyState that write the recorded values  *)
(* back into the gamefile, forward or backward, local or local+global.     *)
(***************************************************************************)
EXTENDS Integers, Sequences, FiniteSets, TLC

(* ------------------------------------------------------------------ *)
(* Bounds of the model                                                  *)
(* ------------------------------------------------------------------ *)

\* Largest number of records in move.state.local and move.state.global together
MaxRecords == 2

\* Largest number of moves committed to the game's moves list
MaxMoves == 2

\* Largest number of screens opened from the title screen
MaxOpened == 4

(* ------------------------------------------------------------------ *)
(* Values                                                               *)
(* ------------------------------------------------------------------ *)

\* JavaScript's undefined; a deleted property reads as undefined too.
Undefined == "undefined"

\* inCheck = false | Coords[]  (opaque to the journal, which only copies it)
InCheckValues == {"false", "[[4,5]]"}

\* attackers = attacker[]; "[]" is the empty list
AttackersValues == {"[]", "[a1]"}

\* References to EnPassant objects; === on objects is identity of reference.
EnPassantValues == {"ep1", "ep2"}

\* CoordsKey of the squares whose special rights are tracked
CoordsKeys == {"5,1", "1,1"}

\* Values of the move-rule counter
MoveRuleValues == {0, 3}

VARIABLES
    gamefile,   \* the fields of the gamefile the journal writes
    move,       \* the Move under consideration: move.state.local / .global
    pre,        \* the gamefile as it was before the move was constructed
                \* (before the call, where applyState is called on its own)
    lastOp,     \* the last exported function called, with its arguments
    calls,      \* the applyState calls made by that function, in order
    moves,      \* the moves list of the game, each Move with its state
    viewIndex,  \* how many of those moves the position being viewed is past
    \* arrows: the variables of its closure
    model,      \* the buffer model of the mini piece images, or undefined
    modelArrows,\* the buffer model of the little arrows, or undefined
    mode,       \* 0 = Off, 1 = Defense, 2 = All
    hovering,   \* whether the mouse was found over an arrow indicator
    hippogonalRidersHoveredOver,  \* the keys of the object: '1,8', ...
    frame,      \* what the most recent update() call met and did
    \* guititle: the elements of the document it works on
    titleElement,               \* its classList
    element_menuExternalLinks,  \* its classList
    element_play,               \* its click listeners
    element_guide,              \* its click listeners
    element_boardEditor,        \* its click listeners
    opened      \* the guiplay.open() / guiguide.open() calls made so far, in order

\* The arrows script's variables.
arrowsVars == <<model, modelArrows, mode, hovering, hippogonalRidersHoveredOver, frame>>

\* The title screen's elements.
titleVars == <<titleElement, element_menuExternalLinks, element_play, element_guide,
               element_boardEditor, opened>>

vars == <<gamefile, move, pre, lastOp, calls, moves, viewIndex, arrowsVars, titleVars>>

\* The arrows script once loaded: no model yet, Defense mode, nothing hovered.
ArrowsLoaded ==
    /\ model = Undefined
    /\ modelArrows = Undefined
    /\ mode = 1
    /\ hovering = FALSE
    /\ hippogonalRidersHoveredOver = {}
    /\ frame = [path |-> "none", hovered |-> {}]

\* The title screen before it is first opened: hidden, no listener attached.
TitleLoaded ==
    /\ titleElement = {"hidden"}
    /\ element_menuExternalLinks = {"hidden"}
    /\ element_play = {}
    /\ element_guide = {}
    /\ element_boardEditor = {}
    /\ opened = <<>>

(* ------------------------------------------------------------------ *)
(* Applying state changes                                               *)
(* ------------------------------------------------------------------ *)

\* Replays the future value whatever the direction.
Selected_AlwaysFuture(state, forward) == state.future

\* Takes current when replaying forward and future when replaying backward.
Selected_Swapped(state, forward) == IF forward THEN state.current ELSE state.future

\* forward ? state.future : state.current
Selected(state, forward) == IF forward THEN state.future ELSE state.current

\* Drops every special right where one is to be removed.
ApplyState_ClearsRights(gf, state, forward) ==
    CASE state.type = "specialrights" ->
            IF ~Selected(state, forward)
            THEN [gf EXCEPT !.specialRights = {}]
            ELSE [gf EXCEPT !.specialRights = @ \cup {state.coordsKey}]
      [] state.type = "check" ->
            [gf EXCEPT !.inCheck = Selected(state, forward)]
      [] state.type = "attackers" ->
            IF Selected(state, forward) = Undefined THEN [gf EXCEPT !.attackers = "[]"]
            ELSE [gf EXCEPT !.attackers = Selected(state, forward)]
      [] state.type = "enpassant" ->
            [gf EXCEPT !.enpassant = Selected(state, forward)]
      [] state.type = "moverulestate" ->
            [gf EXCEPT !.moveRuleState = Selected(state, forward)]

\* Writes the selected value without looking whether it is there.
ApplyState_NoAbsentValues(gf, state, forward) ==
    CASE state.type = "specialrights" ->
            IF ~Selected(state, forward)
            THEN [gf EXCEPT !.specialRights = @ \ {state.coordsKey}]
            ELSE [gf EXCEPT !.specialRights = @ \cup {state.coordsKey}]
      [] state.type = "check" ->
            [gf EXCEPT !.inCheck = Selected(state, forward)]
      [] state.type = "attackers" ->
            [gf EXCEPT !.attackers = Selected(state, forward)]
      [] state.type = "enpassant" ->
            [gf EXCEPT !.enpassant = Selected(state, forward)]
      [] state.type = "moverulestate" ->
            [gf EXCEPT !.moveRuleState = Selected(state, forward)]

\* Flips the special right of the square instead of setting it.
ApplyState_TogglesRights(gf, state, forward) ==
    CASE state.type = "specialrights" ->
            IF state.coordsKey \in gf.specialRights
            THEN [gf EXCEPT !.specialRights = @ \ {state.coordsKey}]
            ELSE [gf EXCEPT !.specialRights = @ \cup {state.coordsKey}]
      [] state.type = "check" ->
            [gf EXCEPT !.inCheck = Selected(state, forward)]
      [] state.type = "attackers" ->
            IF Selected(state, forward) = Undefined THEN [gf EXCEPT !.attackers = "[]"]
            ELSE [gf EXCEPT !.attackers = Selected(state, forward)]
      [] state.type = "enpassant" ->
            [gf EXCEPT !.enpassant = Selected(state, forward)]
      [] state.type = "moverulestate" ->
            [gf EXCEPT !.moveRuleState = Selected(state, forward)]

\* Restarts the move-rule counter whenever a check record is written.
ApplyState_CheckResetsMoveRule(gf, state, forward) ==
    LET noNewValue == Selected(state, forward) = Undefined IN
    CASE state.type = "specialrights" ->
            IF ~Selected(state, forward)
            THEN [gf EXCEPT !.specialRights = @ \ {state.coordsKey}]
            ELSE [gf EXCEPT !.specialRights = @ \cup {state.coordsKey}]
      [] state.type = "check" ->
            [gf EXCEPT !.inCheck = Selected(state, forward), !.moveRuleState = 0]
      [] state.type = "attackers" ->
            IF noNewValue THEN [gf EXCEPT !.attackers = "[]"]
            ELSE [gf EXCEPT !.attackers = Selected(state, forward)]
      [] state.type = "enpassant" ->
            IF noNewValue THEN [gf EXCEPT !.enpassant = Undefined]
            ELSE [gf EXCEPT !.enpassant = Selected(state, forward)]
      [] state.type = "moverulestate" ->
            [gf EXCEPT !.moveRuleState = Selected(state, forward)]

\* applyState(gamefile, state, forward): writes one record's value.
ApplyState(gf, state, forward) ==
    LET noNewValue == Selected(state, forward) = Undefined IN
    CASE state.type = "specialrights" ->
            IF ~Selected(state, forward)
            THEN [gf EXCEPT !.specialRights = @ \ {state.coordsKey}]
            ELSE [gf EXCEPT !.specialRights = @ \cup {state.coordsKey}]
      [] state.type = "check" ->
            [gf EXCEPT !.inCheck = Selected(state, forward)]
      [] state.type = "attackers" ->
            IF noNewValue THEN [gf EXCEPT !.attackers = "[]"]
            ELSE [gf EXCEPT !.attackers = Selected(state, forward)]
      [] state.type = "enpassant" ->
            IF noNewValue THEN [gf EXCEPT !.enpassant = Undefined]
            ELSE [gf EXCEPT !.enpassant = Selected(state, forward)]
      [] state.type = "moverulestate" ->
            [gf EXCEPT !.moveRuleState = Selected(state, forward)]

\* One applyState call, as the caller sees it: which record of which list,
\* and in which direction.
Call(list, index, forward) == [list |-> list, index |-> index, forward |-> forward]

\* Walks the list from its end when replaying backward.
RECURSIVE ForOf_ReversedBackward(_, _, _, _, _)
ForOf_ReversedBackward(acc, changes, list, i, forward) ==
    IF i > Len(changes) THEN acc
    ELSE LET at == IF forward THEN i ELSE Len(changes) + 1 - i IN
         ForOf_ReversedBackward(
               [gamefile |-> ApplyState(acc.gamefile, changes[at], forward),
                calls    |-> Append(acc.calls, Call(list, at, forward))],
               changes, list, i + 1, forward)

\* for (const change of changes) applyState(gamefile, change, forward);
\* acc carries the gamefile and the applyState calls made so far.
RECURSIVE ForOf(_, _, _, _, _)
ForOf(acc, changes, list, i, forward) ==
    IF i > Len(changes) THEN acc
    ELSE ForOf([gamefile |-> ApplyState(acc.gamefile, changes[i], forward),
                calls    |-> Append(acc.calls, Call(list, i, forward))],
               changes, list, i + 1, forward)

\* What an applyMove call leaves: the gamefile, the applyState calls it made
\* and the move, whose records the replay only reads.
Replayed(acc, mv) == [gamefile |-> acc.gamefile, calls |-> acc.calls, move |-> mv]

\* Applies the global records whatever the scope asked for.
ApplyMove_IgnoreScope(gf, mv, forward, globalChange) ==
    Replayed(ForOf(ForOf([gamefile |-> gf, calls |-> <<>>],
                         mv.state.local, "local", 1, forward),
                   mv.state.global, "global", 1, forward), mv)

\* Applies the global records before the local ones.
ApplyMove_GlobalFirst(gf, mv, forward, globalChange) ==
    LET afterGlobal == IF globalChange
                       THEN ForOf([gamefile |-> gf, calls |-> <<>>],
                                  mv.state.global, "global", 1, forward)
                       ELSE [gamefile |-> gf, calls |-> <<>>]
    IN  Replayed(ForOf(afterGlobal, mv.state.local, "local", 1, forward), mv)

\* Takes each record off its list as it applies it.
ApplyMove_ConsumesRecords(gf, mv, forward, globalChange) ==
    LET afterLocal == ForOf([gamefile |-> gf, calls |-> <<>>],
                            mv.state.local, "local", 1, forward)
    IN  IF ~globalChange
        THEN Replayed(afterLocal, [mv EXCEPT !.state.local = <<>>])
        ELSE Replayed(ForOf(afterLocal, mv.state.global, "global", 1, forward),
                      [state |-> [local |-> <<>>, global |-> <<>>]])

\* Replays the global records only when going forward.
ApplyMove_BackwardSkipsGlobal(gf, mv, forward, globalChange) ==
    LET afterLocal == ForOf([gamefile |-> gf, calls |-> <<>>],
                            mv.state.local, "local", 1, forward)
    IN  IF ~globalChange \/ ~forward THEN Replayed(afterLocal, mv)
        ELSE Replayed(ForOf(afterLocal, mv.state.global, "global", 1, forward), mv)

\* applyMove(gamefile, move, forward, { globalChange })
ApplyMove(gf, mv, forward, globalChange) ==
    LET afterLocal == ForOf([gamefile |-> gf, calls |-> <<>>],
                            mv.state.local, "local", 1, forward)
    IN  IF ~globalChange THEN Replayed(afterLocal, mv)
        ELSE Replayed(ForOf(afterLocal, mv.state.global, "global", 1, forward), mv)

(* ------------------------------------------------------------------ *)
(* Creating state changes                                               *)
(* ------------------------------------------------------------------ *)

\* move.state.local.push(newStateChange)
PushLocal(mv, newStateChange) ==
    [mv EXCEPT !.state.local = Append(@, newStateChange)]

\* move.state.global.push(newStateChange)
PushGlobal(mv, newStateChange) ==
    [mv EXCEPT !.state.global = Append(@, newStateChange)]

\* Queues the check record without applying it.
CreateCheckState_NotApplied(mv, current, future, gf) ==
    [move     |-> PushLocal(mv, [type |-> "check", current |-> current, future |-> future]),
     gamefile |-> gf,
     calls    |-> <<>>]

\* createCheckState(move, current, future, gamefile)
CreateCheckState(mv, current, future, gf) ==
    LET newStateChange == [type |-> "check", current |-> current, future |-> future]
        pushed == PushLocal(mv, newStateChange)
    IN  [move     |-> pushed,
         gamefile |-> ApplyState(gf, newStateChange, TRUE),
         calls    |-> <<Call("local", Len(pushed.state.local), TRUE)>>]

\* Skips an attackers change whose current and future are the same.
CreateAttackersState_Elided(mv, current, future, gf) ==
    IF current = future THEN [move |-> mv, gamefile |-> gf, calls |-> <<>>]
    ELSE LET newStateChange == [type |-> "attackers", current |-> current, future |-> future]
             pushed == PushLocal(mv, newStateChange)
         IN  [move     |-> pushed,
              gamefile |-> ApplyState(gf, newStateChange, TRUE),
              calls    |-> <<Call("local", Len(pushed.state.local), TRUE)>>]

\* Queues the attackers record and applies it in the backward direction.
CreateAttackersState_AppliesCurrent(mv, current, future, gf) ==
    LET newStateChange == [type |-> "attackers", current |-> current, future |-> future]
        pushed == PushLocal(mv, newStateChange)
    IN  [move     |-> pushed,
         gamefile |-> ApplyState(gf, newStateChange, FALSE),
         calls    |-> <<Call("local", Len(pushed.state.local), FALSE)>>]

\* createAttackersState(move, current, future, gamefile)
CreateAttackersState(mv, current, future, gf) ==
    LET newStateChange == [type |-> "attackers", current |-> current, future |-> future]
        pushed == PushLocal(mv, newStateChange)
    IN  [move     |-> pushed,
         gamefile |-> ApplyState(gf, newStateChange, TRUE),
         calls    |-> <<Call("local", Len(pushed.state.local), TRUE)>>]

\* move.state.global.find(state => state.type === 'enpassant'):
\* the index of the first enpassant record, 0 when there is none.
FindEnPassant(global) ==
    LET found == {i \in 1..Len(global) : global[i].type = "enpassant"}
    IN  IF found = {} THEN 0
        ELSE CHOOSE i \in found : \A j \in found : i <= j

\* Queues every en-passant change as a record of its own.
CreateEnPassantState_NoCoalescing(mv, current, future) ==
    IF current = future THEN mv
    ELSE PushGlobal(mv, [type |-> "enpassant", current |-> current, future |-> future])

\* Merges by replacing the record found, current included.
CreateEnPassantState_OverwriteCurrent(mv, current, future) ==
    IF current = future THEN mv
    ELSE LET newStateChange == [type |-> "enpassant", current |-> current, future |-> future]
             preExistingEnPassantState == FindEnPassant(mv.state.global)
         IN  IF preExistingEnPassantState # 0
             THEN [mv EXCEPT !.state.global[preExistingEnPassantState] = newStateChange]
             ELSE PushGlobal(mv, newStateChange)

\* Queues or merges without looking whether anything changes.
CreateEnPassantState_NoElision(mv, current, future) ==
    LET newStateChange == [type |-> "enpassant", current |-> current, future |-> future]
        preExistingEnPassantState == FindEnPassant(mv.state.global)
    IN  IF preExistingEnPassantState # 0
        THEN [mv EXCEPT !.state.global[preExistingEnPassantState].future = future]
        ELSE PushGlobal(mv, newStateChange)

\* Merges only a change that continues the record found, and queues any
\* other as a record of its own.
CreateEnPassantState_ChecksCurrent(mv, current, future) ==
    IF current = future THEN mv
    ELSE LET newStateChange == [type |-> "enpassant", current |-> current, future |-> future]
             preExistingEnPassantState == FindEnPassant(mv.state.global)
         IN  IF /\ preExistingEnPassantState # 0
                /\ mv.state.global[preExistingEnPassantState].future = current
             THEN [mv EXCEPT !.state.global[preExistingEnPassantState].future = future]
             ELSE PushGlobal(mv, newStateChange)

\* createEnPassantState(move, current, future)
CreateEnPassantState(mv, current, future) ==
    IF current = future THEN mv
    ELSE LET newStateChange == [type |-> "enpassant", current |-> current, future |-> future]
             preExistingEnPassantState == FindEnPassant(mv.state.global)
         IN  IF preExistingEnPassantState # 0
             THEN [mv EXCEPT !.state.global[preExistingEnPassantState].future = future]
             ELSE PushGlobal(mv, newStateChange)

\* Merges a special-rights change into the record the square already has.
CreateSpecialRightsState_Coalescing(mv, coordsKey, current, future) ==
    IF current = future THEN mv
    ELSE LET sameSquare == {i \in 1..Len(mv.state.global) :
                                /\ mv.state.global[i].type = "specialrights"
                                /\ mv.state.global[i].coordsKey = coordsKey}
         IN  IF sameSquare # {}
             THEN [mv EXCEPT !.state.global[CHOOSE i \in sameSquare : TRUE].future = future]
             ELSE PushGlobal(mv, [type |-> "specialrights", current |-> current,
                                  future |-> future, coordsKey |-> coordsKey])

\* createSpecialRightsState(move, coordsKey, current, future)
CreateSpecialRightsState(mv, coordsKey, current, future) ==
    IF current = future THEN mv
    ELSE PushGlobal(mv, [type |-> "specialrights", current |-> current,
                         future |-> future, coordsKey |-> coordsKey])

\* Queues the move-rule record without looking whether the counter changes.
CreateMoveRuleState_NoElision(mv, current, future) ==
    PushGlobal(mv, [type |-> "moverulestate", current |-> current, future |-> future])

\* createMoveRuleState(move, current, future)
CreateMoveRuleState(mv, current, future) ==
    IF current = future THEN mv
    ELSE PushGlobal(mv, [type |-> "moverulestate", current |-> current, future |-> future])

(* ------------------------------------------------------------------ *)
(* The state machine: one move, the recorders and applyMove called in   *)
(* any order by the move-construction and navigation code               *)
(* ------------------------------------------------------------------ *)

\* The position the game is in before the move is constructed: not in
\* check, an en-passant square pending, one of the two squares holding its
\* special right, the move-rule counter running.
StartGamefiles ==
    { [inCheck |-> "false", attackers |-> "[]", enpassant |-> "ep1",
       specialRights |-> {"5,1"}, moveRuleState |-> 3] }

\* A Move as created by move generation: state: { local: [], global: [] }
EmptyMove == [state |-> [local |-> <<>>, global |-> <<>>]]

\* The records a move holds, used only to bound the model.
NumRecords(mv) == Len(mv.state.local) + Len(mv.state.global)

Init ==
    /\ gamefile \in StartGamefiles
    /\ pre = gamefile
    /\ move = EmptyMove
    /\ lastOp = [name |-> "none"]
    /\ calls = <<>>
    /\ moves = <<>>
    /\ viewIndex = 0
    /\ ArrowsLoaded
    /\ TitleLoaded

createCheckState ==
    \E current \in InCheckValues, future \in InCheckValues :
        LET r == CreateCheckState(move, current, future, gamefile) IN
        /\ NumRecords(r.move) <= MaxRecords
        /\ move' = r.move
        /\ gamefile' = r.gamefile
        /\ calls' = r.calls
        /\ lastOp' = [name |-> "createCheckState", current |-> current, future |-> future]
        /\ UNCHANGED <<pre, moves, viewIndex, arrowsVars, titleVars>>

createAttackersState ==
    \* current is read from the untyped gamefile, where attackers may not be
    \* set yet; future is the freshly computed list.
    \E current \in AttackersValues \cup {Undefined}, future \in AttackersValues :
        LET r == CreateAttackersState(move, current, future, gamefile) IN
        /\ NumRecords(r.move) <= MaxRecords
        /\ move' = r.move
        /\ gamefile' = r.gamefile
        /\ calls' = r.calls
        /\ lastOp' = [name |-> "createAttackersState", current |-> current, future |-> future]
        /\ UNCHANGED <<pre, moves, viewIndex, arrowsVars, titleVars>>

createEnPassantState ==
    \E current \in EnPassantValues \cup {Undefined},
       future \in EnPassantValues \cup {Undefined} :
        LET mv == CreateEnPassantState(move, current, future) IN
        /\ NumRecords(mv) <= MaxRecords
        /\ move' = mv
        /\ calls' = <<>>
        /\ lastOp' = [name |-> "createEnPassantState", current |-> current, future |-> future]
        /\ UNCHANGED <<gamefile, pre, moves, viewIndex, arrowsVars, titleVars>>

createSpecialRightsState ==
    \E coordsKey \in CoordsKeys, current \in BOOLEAN, future \in BOOLEAN :
        LET mv == CreateSpecialRightsState(move, coordsKey, current, future) IN
        /\ NumRecords(mv) <= MaxRecords
        /\ move' = mv
        /\ calls' = <<>>
        /\ lastOp' = [name |-> "createSpecialRightsState", coordsKey |-> coordsKey,
                      current |-> current, future |-> future]
        /\ UNCHANGED <<gamefile, pre, moves, viewIndex, arrowsVars, titleVars>>

createMoveRuleState ==
    \E current \in MoveRuleValues, future \in MoveRuleValues :
        LET mv == CreateMoveRuleState(move, current, future) IN
        /\ NumRecords(mv) <= MaxRecords
        /\ move' = mv
        /\ calls' = <<>>
        /\ lastOp' = [name |-> "createMoveRuleState", current |-> current, future |-> future]
        /\ UNCHANGED <<gamefile, pre, moves, viewIndex, arrowsVars, titleVars>>

applyMove ==
    \E forward \in BOOLEAN, globalChange \in BOOLEAN :
        LET r == ApplyMove(gamefile, move, forward, globalChange) IN
        /\ gamefile' = r.gamefile
        /\ move' = r.move
        /\ calls' = r.calls
        /\ lastOp' = [name |-> "applyMove", forward |-> forward, globalChange |-> globalChange]
        /\ UNCHANGED <<pre, moves, viewIndex, arrowsVars, titleVars>>

Next ==
    \/ createCheckState
    \/ createAttackersState
    \/ createEnPassantState
    \/ createSpecialRightsState
    \/ createMoveRuleState
    \/ applyMove

Spec == Init /\ [][Next]_vars

(* ------------------------------------------------------------------ *)
(* Vocabulary of the properties                                         *)
(* ------------------------------------------------------------------ *)

\* The last call was applyMove(gamefile, move, forward, { globalChange }).
IsApplyMove(op, forward, globalChange) ==
    /\ op.name = "applyMove"
    /\ op.forward = forward
    /\ op.globalChange = globalChange

GlobalRecorders == {"createEnPassantState", "createSpecialRightsState", "createMoveRuleState"}

\* The indices of the records of one kind in a list.
OfType(changes, type) == {i \in 1..Len(changes) : changes[i].type = type}

\* The indices of the specialrights records of one square.
OfKey(changes, coordsKey) ==
    {i \in 1..Len(changes) :
        changes[i].type = "specialrights" /\ changes[i].coordsKey = coordsKey}

Last(indices) == CHOOSE i \in indices : \A j \in indices : j <= i

\* The global-tracked fields of two gamefiles agree.
SameGlobalFields(g1, g2) ==
    /\ g1.enpassant = g2.enpassant
    /\ g1.specialRights = g2.specialRights
    /\ g1.moveRuleState = g2.moveRuleState

\* The move's records are what the recorders build from the pre-move
\* position: a check or attackers record was recorded with the value the
\* field had then (the previous such record's future, applied at once), a
\* global record with the pre-move value (global records are deferred).
RecordedFromPre(mv) ==
    LET local == mv.state.local
        global == mv.state.global
        Chained(type, start) ==
            \A i \in OfType(local, type) :
                LET before == {j \in OfType(local, type) : j < i} IN
                local[i].current = IF before = {} THEN start ELSE local[Last(before)].future
    IN  /\ Chained("check", pre.inCheck)
        /\ Chained("attackers", pre.attackers)
        /\ \A i \in OfType(global, "enpassant") : global[i].current = pre.enpassant
        /\ \A i \in OfType(global, "moverulestate") : global[i].current = pre.moveRuleState
        /\ \A i \in OfType(global, "specialrights") :
                global[i].current = (global[i].coordsKey \in pre.specialRights)

\* The field has no record in the list, or its last record there has the
\* pre-move value as current.
LastCurrentIsPre(changes, type, value) ==
    OfType(changes, type) = {} \/ changes[Last(OfType(changes, type))].current = value

LastCurrentOfKeyIsPre(changes, coordsKey) ==
    \/ OfKey(changes, coordsKey) = {}
    \/ changes[Last(OfKey(changes, coordsKey))].current = (coordsKey \in pre.specialRights)

(* ------------------------------------------------------------------ *)
(* C1  Round trip                                                       *)
(* ------------------------------------------------------------------ *)

C2_LocalScopeIsolation ==
    [][(lastOp'.name = "applyMove" /\ ~lastOp'.globalChange) =>
        /\ SameGlobalFields(gamefile', gamefile)
        /\ gamefile'.inCheck # gamefile.inCheck => OfType(move.state.local, "check") # {}
        /\ gamefile'.attackers # gamefile.attackers => OfType(move.state.local, "attackers") # {}
      ]_vars

\* A local-only traversal has run on a move holding a local record and a
\* global record whose value for that direction is not the gamefile's.
C2_Witness ==
    /\ lastOp.name = "applyMove" /\ ~lastOp.globalChange
    /\ move.state.local # <<>>
    /\ \E i \in OfType(move.state.global, "moverulestate") :
          Selected(move.state.global[i], lastOp.forward) # gamefile.moveRuleState

(* ------------------------------------------------------------------ *)
(* C3  Coalescing of two en-passant recordings                          *)
(* ------------------------------------------------------------------ *)

\* The move holds exactly one enpassant record, with these values.
OneEnPassantRecord(mv, current, future) ==
    LET global == mv.state.global IN
    /\ Cardinality(OfType(global, "enpassant")) = 1
    /\ \A i \in OfType(global, "enpassant") :
          global[i].current = current /\ global[i].future = future

\* The state createEnPassantState(move, A, B) leaves when the move held no
\* enpassant record before it: the record A -> B, or none when A = B.
AfterFirstEnPassantCall(mv, op) ==
    /\ op.name = "createEnPassantState"
    /\ IF op.current = op.future
       THEN OfType(mv.state.global, "enpassant") = {}
       ELSE OneEnPassantRecord(mv, op.current, op.future)

C4_AtMostOneEnPassant ==
    Cardinality(OfType(move.state.global, "enpassant")) <= 1

\* An en-passant recording made after a record of another kind was queued
\* behind the enpassant record: it was merged, not appended.
C4_Witness ==
    /\ lastOp.name = "createEnPassantState"
    /\ lastOp.current # lastOp.future
    /\ Len(move.state.global) = 2
    /\ move.state.global[1].type = "enpassant"
    /\ move.state.global[2].type # "enpassant"
    /\ move.state.global[1].future = lastOp.future

(* ------------------------------------------------------------------ *)
(* C5  No-op elision                                                    *)
(* ------------------------------------------------------------------ *)

\* C5: a global recorder called with current equal to future (both undefined
\* included) appends no record and modifies none: the move is unchanged.
C5_NoOpElision ==
    [][(lastOp'.name \in GlobalRecorders /\ lastOp'.current = lastOp'.future)
       => move' = move]_vars

\* A no-op en-passant recording was made on a move that holds an enpassant
\* record with another future, which a merge would have overwritten.
C5_Witness ==
    /\ lastOp.name = "createEnPassantState"
    /\ lastOp.current = lastOp.future
    /\ \E i \in OfType(move.state.global, "enpassant") :
          move.state.global[i].future # lastOp.future

(* ------------------------------------------------------------------ *)
(* C6  No stray no-op record                                            *)
(* ------------------------------------------------------------------ *)

\* C6: after any sequence of global recorder calls, move.state.global holds
\* no enpassant record whose current equals its future.
C6_NoStrayEnPassantRecord ==
    \A i \in OfType(move.state.global, "enpassant") :
        move.state.global[i].current # move.state.global[i].future

(* ------------------------------------------------------------------ *)
(* C7  Order preservation                                               *)
(* ------------------------------------------------------------------ *)

\* The positions in calls of the applyState calls on the records of one list.
CallsOn(list) == {k \in 1..Len(calls) : calls[k].list = list}

\* C7: applyMove applies the records of move.state.local, and those of
\* move.state.global, in insertion order, forward and backward alike: the
\* calls on one list go by ascending index, so each field with a record in
\* scope ends on the value of its last record for that direction.
C7_OrderPreservation ==
    lastOp.name = "applyMove" =>
        /\ \A list \in {"local", "global"} : \A k1, k2 \in CallsOn(list) :
              k1 < k2 => calls[k1].index < calls[k2].index
        /\ OfType(move.state.local, "check") # {} =>
              gamefile.inCheck =
                  Selected(move.state.local[Last(OfType(move.state.local, "check"))],
                           lastOp.forward)
        /\ (lastOp.globalChange /\ OfType(move.state.global, "moverulestate") # {}) =>
              gamefile.moveRuleState =
                  Selected(move.state.global[Last(OfType(move.state.global, "moverulestate"))],
                           lastOp.forward)

\* A backward traversal has run over two records of one field whose current
\* values differ, so the order of application shows in the result.
C7_Witness ==
    /\ IsApplyMove(lastOp, FALSE, TRUE)
    /\ Len(calls) = 2
    /\ \/ /\ Cardinality(OfType(move.state.local, "check")) = 2
          /\ move.state.local[1].current # move.state.local[2].current
       \/ /\ Cardinality(OfType(move.state.global, "moverulestate")) = 2
          /\ move.state.global[1].current # move.state.global[2].current

(* ------------------------------------------------------------------ *)
(* C8  Scope and completeness of replay                                 *)
(* ------------------------------------------------------------------ *)

\* The applyState calls on records 1..n of a list, in that order.
RECURSIVE CallsInOrder(_, _, _)
CallsInOrder(list, n, forward) ==
    IF n = 0 THEN <<>>
    ELSE Append(CallsInOrder(list, n - 1, forward), Call(list, n, forward))

\* C8: applyMove with globalChange = true applies every local record and
\* then every global record, each exactly once, with the same forward flag;
\* with globalChange = false exactly the local records. It ends after that
\* many applyState calls.
C8_ScopeAndCompleteness ==
    lastOp.name = "applyMove" =>
        /\ calls = CallsInOrder("local", Len(move.state.local), lastOp.forward)
                   \o (IF lastOp.globalChange
                       THEN CallsInOrder("global", Len(move.state.global), lastOp.forward)
                       ELSE <<>>)
        /\ Len(calls) = Len(move.state.local)
                        + (IF lastOp.globalChange THEN Len(move.state.global) ELSE 0)

\* A local+global traversal has run on a move holding records in both lists.
C8_Witness ==
    /\ lastOp.name = "applyMove" /\ lastOp.globalChange
    /\ move.state.local # <<>>
    /\ move.state.global # <<>>
    /\ Len(calls) = 2

\* A local-only traversal has run on a move holding records in both lists.
C8_WitnessLocalOnly ==
    /\ lastOp.name = "applyMove" /\ ~lastOp.globalChange
    /\ move.state.local # <<>>
    /\ move.state.global # <<>>
    /\ Len(calls) = 1

(* ------------------------------------------------------------------ *)
(* C9  Local recorders append and apply immediately                     *)
(* ------------------------------------------------------------------ *)

\* C9: createCheckState appends exactly one check record {current, future}
\* at the end of move.state.local and leaves gamefile.inCheck equal to
\* future; createAttackersState does the same with an attackers record and
\* gamefile.attackers. No other gamefile field and no record of
\* move.state.global changes.
C9_LocalRecorders ==
    [][/\ lastOp'.name = "createCheckState" =>
            /\ move'.state.local =
                   Append(move.state.local,
                          [type |-> "check", current |-> lastOp'.current,
                           future |-> lastOp'.future])
            /\ gamefile'.inCheck = lastOp'.future
            /\ gamefile' = [gamefile EXCEPT !.inCheck = gamefile'.inCheck]
            /\ move'.state.global = move.state.global
       /\ lastOp'.name = "createAttackersState" =>
            /\ move'.state.local =
                   Append(move.state.local,
                          [type |-> "attackers", current |-> lastOp'.current,
                           future |-> lastOp'.future])
            /\ gamefile'.attackers = lastOp'.future
            /\ gamefile' = [gamefile EXCEPT !.attackers = gamefile'.attackers]
            /\ move'.state.global = move.state.global
      ]_vars

\* A check record has just been recorded on a move that holds a global
\* record, and has changed gamefile.inCheck.
C9_Witness ==
    /\ lastOp.name = "createCheckState"
    /\ lastOp.current # lastOp.future
    /\ gamefile.inCheck = lastOp.future
    /\ gamefile.inCheck # pre.inCheck
    /\ move.state.global # <<>>

(* ------------------------------------------------------------------ *)
(* C10  Global records are deferred                                     *)
(* ------------------------------------------------------------------ *)

\* C10: no call of a global recorder changes a gamefile field, and
\* enpassant, specialRights and moveRuleState change only during an
\* applyMove call with globalChange = true.
C10_GlobalDeferred ==
    [][/\ lastOp'.name \in GlobalRecorders => gamefile' = gamefile
       /\ ~SameGlobalFields(gamefile', gamefile) =>
              (lastOp'.name = "applyMove" /\ lastOp'.globalChange)
      ]_vars

\* A move-rule change has just been queued and the gamefile still holds the
\* old counter.
C10_Witness ==
    /\ lastOp.name = "createMoveRuleState"
    /\ lastOp.current # lastOp.future
    /\ lastOp.current = gamefile.moveRuleState
    /\ move.state.global[Len(move.state.global)].future # gamefile.moveRuleState

(* ------------------------------------------------------------------ *)
(* applyState called on its own: any gamefile, any StateChange          *)
(* ------------------------------------------------------------------ *)

\* Every value the journal's gamefile fields can hold.
AllGamefiles ==
    [inCheck : InCheckValues,
     attackers : AttackersValues,
     enpassant : EnPassantValues \cup {Undefined},
     specialRights : SUBSET CoordsKeys,
     moveRuleState : MoveRuleValues]

\* The StateChange variants. An attackers value may be missing when the
\* record comes from untyped code, which applyState provides for.
CheckChanges ==
    [type : {"check"}, current : InCheckValues, future : InCheckValues]

AttackersChanges ==
    [type : {"attackers"}, current : AttackersValues \cup {Undefined},
     future : AttackersValues \cup {Undefined}]

EnPassantChanges ==
    [type : {"enpassant"}, current : EnPassantValues \cup {Undefined},
     future : EnPassantValues \cup {Undefined}]

SpecialRightsChanges ==
    [type : {"specialrights"}, current : BOOLEAN, future : BOOLEAN,
     coordsKey : CoordsKeys]

MoveRuleChanges ==
    [type : {"moverulestate"}, current : MoveRuleValues, future : MoveRuleValues]

InitApplyState ==
    /\ gamefile \in AllGamefiles
    /\ pre = gamefile
    /\ move = EmptyMove
    /\ lastOp = [name |-> "none"]
    /\ calls = <<>>
    /\ moves = <<>>
    /\ viewIndex = 0
    /\ ArrowsLoaded
    /\ TitleLoaded

\* One call applyState(gamefile, state, forward).
ApplyStateCall(state, forward) ==
    /\ gamefile' = ApplyState(gamefile, state, forward)
    /\ pre' = gamefile
    /\ lastOp' = [name |-> "applyState", state |-> state, forward |-> forward]
    /\ UNCHANGED <<move, calls, moves, viewIndex, arrowsVars, titleVars>>

applyStateCheck ==
    \E state \in CheckChanges, forward \in BOOLEAN : ApplyStateCall(state, forward)

applyStateAttackers ==
    \E state \in AttackersChanges, forward \in BOOLEAN : ApplyStateCall(state, forward)

applyStateEnPassant ==
    \E state \in EnPassantChanges, forward \in BOOLEAN : ApplyStateCall(state, forward)

applyStateSpecialRights ==
    \E state \in SpecialRightsChanges, forward \in BOOLEAN : ApplyStateCall(state, forward)

applyStateMoveRule ==
    \E state \in MoveRuleChanges, forward \in BOOLEAN : ApplyStateCall(state, forward)

NextApplyState ==
    \/ applyStateCheck
    \/ applyStateAttackers
    \/ applyStateEnPassant
    \/ applyStateSpecialRights
    \/ applyStateMoveRule

SpecApplyState == InitApplyState /\ [][NextApplyState]_vars

\* The last call was applyState on a record of this kind.
AppliedState(type) == lastOp.name = "applyState" /\ lastOp.state.type = type

\* The value the claims name for a call: future if forward, current if not.
ValueFor(op) == IF op.forward THEN op.state.future ELSE op.state.current

(* ------------------------------------------------------------------ *)
(* C11  Value selection of single-record apply                          *)
(* ------------------------------------------------------------------ *)

\* C11: applyState uses record.future when forward and record.current when
\* not; for a check record it sets gamefile.inCheck to that value, for a
\* moverulestate record gamefile.moveRuleState.
C11_ValueSelection ==
    /\ AppliedState("check") => gamefile.inCheck = ValueFor(lastOp)
    /\ AppliedState("moverulestate") => gamefile.moveRuleState = ValueFor(lastOp)

\* The check record false -> [[4,5]] has been applied backward on a gamefile
\* in check.
C11_Witness ==
    /\ AppliedState("check")
    /\ lastOp.state.current = "false" /\ lastOp.state.future = "[[4,5]]"
    /\ ~lastOp.forward
    /\ pre.inCheck = "[[4,5]]" /\ gamefile.inCheck = "false"

\* The moverulestate record 3 -> 0 has been applied forward on a counter at 3.
C11_WitnessMoveRule ==
    /\ AppliedState("moverulestate")
    /\ lastOp.state.current = 3 /\ lastOp.state.future = 0
    /\ lastOp.forward
    /\ pre.moveRuleState = 3 /\ gamefile.moveRuleState = 0

(* ------------------------------------------------------------------ *)
(* C12  Special-rights replay                                           *)
(* ------------------------------------------------------------------ *)

\* C12: applying a specialrights record removes its coordsKey from
\* gamefile.specialRights when the selected value is false and inserts it
\* when it is true; the membership of every other square key is unchanged.
C12_SpecialRightsReplay ==
    AppliedState("specialrights") =>
        /\ ValueFor(lastOp) = FALSE => lastOp.state.coordsKey \notin gamefile.specialRights
        /\ ValueFor(lastOp) = TRUE => lastOp.state.coordsKey \in gamefile.specialRights
        /\ \A coordsKey \in CoordsKeys \ {lastOp.state.coordsKey} :
              coordsKey \in gamefile.specialRights <=> coordsKey \in pre.specialRights

\* The record true -> false of square 5,1 has been applied forward on a
\* gamefile where both squares held their right: 5,1 lost it, 1,1 kept it.
C12_Witness ==
    /\ AppliedState("specialrights")
    /\ lastOp.state.coordsKey = "5,1"
    /\ lastOp.state.current /\ ~lastOp.state.future /\ lastOp.forward
    /\ pre.specialRights = {"5,1", "1,1"}
    /\ gamefile.specialRights = {"1,1"}

\* The same record has been applied backward and has put 5,1 back.
C12_WitnessBackward ==
    /\ AppliedState("specialrights")
    /\ lastOp.state.coordsKey = "5,1"
    /\ lastOp.state.current /\ ~lastOp.state.future /\ ~lastOp.forward
    /\ pre.specialRights = {}
    /\ gamefile.specialRights = {"5,1"}

(* ------------------------------------------------------------------ *)
(* C13  Special-rights and move-rule records are never coalesced        *)
(* ------------------------------------------------------------------ *)

\* Two records are the same record: same kind, same fields.
SameChange(a, b) == a.type = b.type /\ a = b

\* Two record lists hold the same records in the same order.
SameChanges(s, t) ==
    Len(s) = Len(t) /\ \A i \in 1..Len(s) : SameChange(s[i], t[i])

\* The list after is the list before with one record appended.
AppendedTo(before, after) ==
    /\ Len(after) = Len(before) + 1
    /\ SameChanges(SubSeq(after, 1, Len(before)), before)

\* C13: createSpecialRightsState and createMoveRuleState called with current
\* different from future append exactly one new record at the end of
\* move.state.global and modify no existing record, also when a record of
\* that kind (and square) is already there.
C13_NeverCoalesced ==
    [][/\ (lastOp'.name = "createSpecialRightsState"
           /\ lastOp'.current # lastOp'.future) =>
            /\ AppendedTo(move.state.global, move'.state.global)
            /\ LET new == move'.state.global[Len(move'.state.global)] IN
               /\ new.type = "specialrights"
               /\ new.coordsKey = lastOp'.coordsKey
               /\ new.current = lastOp'.current
               /\ new.future = lastOp'.future
       /\ (lastOp'.name = "createMoveRuleState"
           /\ lastOp'.current # lastOp'.future) =>
            /\ AppendedTo(move.state.global, move'.state.global)
            /\ LET new == move'.state.global[Len(move'.state.global)] IN
               /\ new.type = "moverulestate"
               /\ new.current = lastOp'.current
               /\ new.future = lastOp'.future
      ]_vars

\* A special-rights change of a square has been queued behind an earlier
\* record of the same square.
C13_Witness ==
    /\ lastOp.name = "createSpecialRightsState"
    /\ lastOp.current # lastOp.future
    /\ Len(move.state.global) = 2
    /\ \A i \in 1..2 :
          /\ move.state.global[i].type = "specialrights"
          /\ move.state.global[i].coordsKey = lastOp.coordsKey

(* ------------------------------------------------------------------ *)
(* C14  Creation-time invariant                                         *)
(* ------------------------------------------------------------------ *)

\* C14: whenever a record is appended to move.state.global, it is of kind
\* enpassant, specialrights or moverulestate and its current differs from
\* its future.
C14_CreationTime ==
    [][Len(move'.state.global) > Len(move.state.global) =>
          LET new == move'.state.global[Len(move'.state.global)] IN
          /\ new.type \in {"enpassant", "specialrights", "moverulestate"}
          /\ new.current # new.future
      ]_vars

\* An enpassant record has just been appended by createEnPassantState.
C14_Witness ==
    /\ lastOp.name = "createEnPassantState"
    /\ move.state.global # <<>>
    /\ LET new == move.state.global[Len(move.state.global)] IN
       /\ new.type = "enpassant"
       /\ new.current = lastOp.current
       /\ new.future = lastOp.future
       /\ new.current # new.future

(* ------------------------------------------------------------------ *)
(* C15  Replay never changes the journal                                *)
(* ------------------------------------------------------------------ *)

\* C15: no applyMove call, in any direction or scope, changes the length,
\* the order or any field of a record of move.state.local or
\* move.state.global.
C15_JournalUnchanged ==
    [][lastOp'.name = "applyMove" =>
          /\ SameChanges(move'.state.local, move.state.local)
          /\ SameChanges(move'.state.global, move.state.global)
      ]_vars

\* A backward local+global traversal has run over records of both lists and
\* left the gamefile on values other than the futures recorded.
C15_Witness ==
    /\ IsApplyMove(lastOp, FALSE, TRUE)
    /\ \E i \in OfType(move.state.local, "check") :
          gamefile.inCheck # move.state.local[i].future
    /\ \E i \in OfType(move.state.global, "enpassant") :
          gamefile.enpassant # move.state.global[i].future

(* ------------------------------------------------------------------ *)
(* C16  Local records are never elided                                  *)
(* ------------------------------------------------------------------ *)

\* C16: createCheckState and createAttackersState append a record and apply
\* it also when current equals future: every call grows move.state.local
\* by exactly one record, with the values of the call, and calls applyState
\* on it.
C16_LocalNeverElided ==
    [][lastOp'.name \in {"createCheckState", "createAttackersState"} =>
          /\ AppendedTo(move.state.local, move'.state.local)
          /\ LET new == move'.state.local[Len(move'.state.local)] IN
             /\ new.current = lastOp'.current
             /\ new.future = lastOp'.future
          /\ calls' = <<Call("local", Len(move'.state.local), TRUE)>>
      ]_vars

\* An attackers record with current equal to future has been recorded and
\* applied: the gamefile, which held another list, now holds that value.
C16_Witness ==
    /\ lastOp.name = "createAttackersState"
    /\ lastOp.current = lastOp.future
    /\ move.state.local # <<>>
    /\ LET new == move.state.local[Len(move.state.local)] IN
       new.type = "attackers" /\ new.current = new.future
    /\ gamefile.attackers = lastOp.future
    /\ pre.attackers # lastOp.future

(* ------------------------------------------------------------------ *)
(* C17  Absent selected values                                          *)
(* ------------------------------------------------------------------ *)

\* C17: applying an enpassant record whose selected value is absent clears
\* gamefile.enpassant (it reads undefined), otherwise sets it to the
\* selected value; applying an attackers record whose selected value is
\* absent sets gamefile.attackers to the empty list, otherwise to the
\* selected value.
C17_AbsentValues ==
    /\ AppliedState("enpassant") =>
          gamefile.enpassant =
              IF ValueFor(lastOp) = Undefined THEN Undefined ELSE ValueFor(lastOp)
    /\ AppliedState("attackers") =>
          gamefile.attackers =
              IF ValueFor(lastOp) = Undefined THEN "[]" ELSE ValueFor(lastOp)

\* An attackers record without a current value has been applied backward on
\* a gamefile that held attackers: the list is now empty.
C17_Witness ==
    /\ AppliedState("attackers")
    /\ ~lastOp.forward
    /\ lastOp.state.current = Undefined
    /\ pre.attackers = "[a1]"
    /\ gamefile.attackers = "[]"

\* An enpassant record without a future has been applied forward on a
\* gamefile that held an en-passant square: the field is cleared.
C17_WitnessEnPassant ==
    /\ AppliedState("enpassant")
    /\ lastOp.forward
    /\ lastOp.state.future = Undefined
    /\ pre.enpassant = "ep1"
    /\ gamefile.enpassant = Undefined

(* ------------------------------------------------------------------ *)
(* C18  General coalescing of en-passant writes                         *)
(* ------------------------------------------------------------------ *)

\* C18, step by step: the first createEnPassantState call with current
\* different from future queues the enpassant record at the end of
\* move.state.global with the values of the call; every later such call
\* leaves the record in its place with its current and sets its future to
\* the future of the call, whatever the current of the call; every other
\* call leaves the record as it is.
C18_GeneralCoalescing ==
    [][LET global == move.state.global
           globalAfter == move'.state.global
           before == OfType(global, "enpassant")
           after == OfType(globalAfter, "enpassant")
           changing == /\ lastOp'.name = "createEnPassantState"
                       /\ lastOp'.current # lastOp'.future
       IN  /\ (changing /\ before = {}) =>
                /\ after = {Len(global) + 1}
                /\ globalAfter[Len(global) + 1].current = lastOp'.current
                /\ globalAfter[Len(global) + 1].future = lastOp'.future
           /\ (changing /\ before # {}) =>
                /\ after = before
                /\ \A i \in before :
                      /\ globalAfter[i].current = global[i].current
                      /\ globalAfter[i].future = lastOp'.future
           /\ ~changing =>
                /\ after = before
                /\ \A i \in before : SameChange(globalAfter[i], global[i])
      ]_vars

\* An en-passant change whose current is neither the current nor the new
\* future of the record has been merged into the record, which stays first
\* in the list, ahead of a record queued after it.
C18_Witness ==
    /\ lastOp.name = "createEnPassantState"
    /\ lastOp.current # lastOp.future
    /\ Len(move.state.global) = 2
    /\ move.state.global[1].type = "enpassant"
    /\ move.state.global[2].type = "moverulestate"
    /\ move.state.global[1].current # lastOp.current
    /\ move.state.global[1].future = lastOp.future

(* ------------------------------------------------------------------ *)
(* A history of moves: commit, view backward and forward, unwind        *)
(* ------------------------------------------------------------------ *)

\* The records of one move, recorded from the position gf by the recorders:
\* the global changes are queued, the check and attackers of the new
\* position are recorded (and applied at once). A global value that does
\* not change queues nothing.
RecordMove(gf, futureInCheck, futureEnPassant, coordsKey, futureRight, futureMoveRule) ==
    LET futureAttackers == IF futureInCheck = "false" THEN "[]" ELSE "[a1]"
        m1 == CreateEnPassantState(EmptyMove, gf.enpassant, futureEnPassant)
        m2 == CreateSpecialRightsState(m1, coordsKey, coordsKey \in gf.specialRights,
                                       futureRight)
        m3 == CreateMoveRuleState(m2, gf.moveRuleState, futureMoveRule)
        c1 == CreateCheckState(m3, gf.inCheck, futureInCheck, gf)
    IN  CreateAttackersState(c1.move, gf.attackers, futureAttackers, c1.gamefile)

\* The game is being unwound: the last call took a move back.
Unwinding == IsApplyMove(lastOp, FALSE, TRUE)

InitHistory ==
    /\ gamefile \in StartGamefiles
    /\ pre = gamefile
    /\ move = EmptyMove
    /\ lastOp = [name |-> "none"]
    /\ calls = <<>>
    /\ moves = <<>>
    /\ viewIndex = 0
    /\ ArrowsLoaded
    /\ TitleLoaded

\* A move is made on the position at the end of the moves list: its records
\* are recorded and it is committed with applyMove forward, globalChange true.
commitMove ==
    \E futureInCheck \in InCheckValues,
       futureEnPassant \in EnPassantValues \cup {Undefined},
       coordsKey \in CoordsKeys, futureRight \in BOOLEAN,
       futureMoveRule \in MoveRuleValues :
        LET recorded == RecordMove(gamefile, futureInCheck, futureEnPassant,
                                   coordsKey, futureRight, futureMoveRule)
            r == ApplyMove(recorded.gamefile, recorded.move, TRUE, TRUE)
        IN  /\ ~Unwinding
            /\ viewIndex = Len(moves)
            /\ Len(moves) < MaxMoves
            /\ gamefile' = r.gamefile
            /\ moves' = Append(moves, r.move)
            /\ viewIndex' = viewIndex + 1
            /\ calls' = r.calls
            /\ lastOp' = [name |-> "applyMove", forward |-> TRUE, globalChange |-> TRUE]
            /\ UNCHANGED <<move, pre, arrowsVars, titleVars>>

\* The view steps back over one move: applyMove backward, local only.
rewindView ==
    LET r == ApplyMove(gamefile, moves[viewIndex], FALSE, FALSE) IN
    /\ ~Unwinding
    /\ viewIndex > 0
    /\ gamefile' = r.gamefile
    /\ moves' = [moves EXCEPT ![viewIndex] = r.move]
    /\ viewIndex' = viewIndex - 1
    /\ calls' = r.calls
    /\ lastOp' = [name |-> "applyMove", forward |-> FALSE, globalChange |-> FALSE]
    /\ UNCHANGED <<move, pre, arrowsVars, titleVars>>

\* The view steps forward over one move: applyMove forward, local only.
forwardView ==
    LET r == ApplyMove(gamefile, moves[viewIndex + 1], TRUE, FALSE) IN
    /\ ~Unwinding
    /\ viewIndex < Len(moves)
    /\ gamefile' = r.gamefile
    /\ moves' = [moves EXCEPT ![viewIndex + 1] = r.move]
    /\ viewIndex' = viewIndex + 1
    /\ calls' = r.calls
    /\ lastOp' = [name |-> "applyMove", forward |-> TRUE, globalChange |-> FALSE]
    /\ UNCHANGED <<move, pre, arrowsVars, titleVars>>

\* The last move still in the game is taken back: applyMove backward,
\* globalChange true. Unwinding starts from the end of the moves list, with
\* every local-only traversal undone, and goes on move by move.
unwindMove ==
    LET r == ApplyMove(gamefile, moves[viewIndex], FALSE, TRUE) IN
    /\ viewIndex > 0
    /\ Unwinding \/ viewIndex = Len(moves)
    /\ gamefile' = r.gamefile
    /\ moves' = [moves EXCEPT ![viewIndex] = r.move]
    /\ viewIndex' = viewIndex - 1
    /\ calls' = r.calls
    /\ lastOp' = [name |-> "applyMove", forward |-> FALSE, globalChange |-> TRUE]
    /\ UNCHANGED <<move, pre, arrowsVars, titleVars>>

NextHistory ==
    \/ commitMove
    \/ rewindView
    \/ forwardView
    \/ unwindMove

SpecHistory == InitHistory /\ [][NextHistory]_vars

(* ------------------------------------------------------------------ *)
(* C19  Commit and unwind over a history                                *)
(* ------------------------------------------------------------------ *)

\* The position after the first k moves of the list were committed.
RECURSIVE PositionAfter(_)
PositionAfter(k) ==
    IF k = 0 THEN pre
    ELSE ApplyMove(PositionAfter(k - 1), moves[k], TRUE, TRUE).gamefile

\* The move touches each tracked field, and each special-rights square, with
\* at most one record, whose current is the field's value in position gf.
RecordedOnceFrom(mv, gf) ==
    LET local == mv.state.local
        global == mv.state.global
    IN  /\ \A type \in {"check", "attackers"} : Cardinality(OfType(local, type)) <= 1
        /\ \A type \in {"enpassant", "moverulestate"} : Cardinality(OfType(global, type)) <= 1
        /\ \A coordsKey \in CoordsKeys : Cardinality(OfKey(global, coordsKey)) <= 1
        /\ \A i \in OfType(local, "check") : local[i].current = gf.inCheck
        /\ \A i \in OfType(local, "attackers") : local[i].current = gf.attackers
        /\ \A i \in OfType(global, "enpassant") : global[i].current = gf.enpassant
        /\ \A i \in OfType(global, "moverulestate") : global[i].current = gf.moveRuleState
        /\ \A i \in OfType(global, "specialrights") :
              global[i].current = (global[i].coordsKey \in gf.specialRights)

\* The precondition of C19 on the whole moves list.
HistoryRecordedOnce ==
    \A k \in 1..Len(moves) : RecordedOnceFrom(moves[k], PositionAfter(k - 1))

\* C19: if every move's records have current equal to the field's value just
\* before that move and each move touches each tracked field (and square)
\* with at most one record, then after the moves were committed in order,
\* viewed backward and forward with local-only traversals, and unwound in
\* reverse order with applyMove backward, globalChange true, all five
\* tracked fields hold their initial values again.
C19_CommitUnwind ==
    (Unwinding /\ viewIndex = 0 /\ HistoryRecordedOnce) => gamefile = pre

\* Two moves, each changing the check state and a global field, have been
\* committed and unwound again.
C19_Witness ==
    /\ Unwinding
    /\ viewIndex = 0
    /\ Len(moves) = 2
    /\ HistoryRecordedOnce
    /\ \A k \in 1..2 :
          /\ moves[k].state.global # <<>>
          /\ \E i \in OfType(moves[k].state.local, "check") :
                moves[k].state.local[i].current # moves[k].state.local[i].future
    /\ gamefile = pre

(* ------------------------------------------------------------------ *)
(* C20  Replay is idempotent and state-independent                      *)
(* ------------------------------------------------------------------ *)

\* The value a record gives for a direction: future forward, current backward.
ValueOf(record, forward) == IF forward THEN record.future ELSE record.current

\* C20: right after an applyMove call, the same call again leaves the
\* gamefile as it is, and every field touched by a record in scope holds the
\* value its last record gives for the direction (the empty list for an
\* absent attackers value), whatever the gamefile held before the call.
C20_IdempotentReplay ==
    lastOp.name = "applyMove" =>
        LET local == move.state.local
            global == move.state.global
            forward == lastOp.forward
        IN  /\ ApplyMove(gamefile, move, forward, lastOp.globalChange).gamefile = gamefile
            /\ OfType(local, "check") # {} =>
                  gamefile.inCheck = ValueOf(local[Last(OfType(local, "check"))], forward)
            /\ OfType(local, "attackers") # {} =>
                  LET value == ValueOf(local[Last(OfType(local, "attackers"))], forward) IN
                  gamefile.attackers = IF value = Undefined THEN "[]" ELSE value
            /\ lastOp.globalChange =>
                  /\ OfType(global, "enpassant") # {} =>
                        gamefile.enpassant =
                            ValueOf(global[Last(OfType(global, "enpassant"))], forward)
                  /\ OfType(global, "moverulestate") # {} =>
                        gamefile.moveRuleState =
                            ValueOf(global[Last(OfType(global, "moverulestate"))], forward)
                  /\ \A coordsKey \in CoordsKeys :
                        OfKey(global, coordsKey) # {} =>
                            (coordsKey \in gamefile.specialRights
                                <=> ValueOf(global[Last(OfKey(global, coordsKey))], forward))

\* A local+global traversal has run on a move holding an attackers record
\* and a special-rights record, on a gamefile whose square then held the
\* other value.
C20_Witness ==
    /\ lastOp.name = "applyMove" /\ lastOp.globalChange
    /\ OfType(move.state.local, "attackers") # {}
    /\ \E i \in OfType(move.state.global, "specialrights") :
          LET coordsKey == move.state.global[i].coordsKey IN
          (coordsKey \in gamefile.specialRights) # (coordsKey \in pre.specialRights)

(* ------------------------------------------------------------------ *)
(* Construction of a move followed by its local forward replay          *)
(* ------------------------------------------------------------------ *)

\* applyMove(gamefile, move, true) with globalChange left at its default
\* of false: the call made on a move that has just been constructed.
applyMoveLocalForward ==
    LET r == ApplyMove(gamefile, move, TRUE, FALSE) IN
    /\ gamefile' = r.gamefile
    /\ move' = r.move
    /\ calls' = r.calls
    /\ lastOp' = [name |-> "applyMove", forward |-> TRUE, globalChange |-> FALSE]
    /\ UNCHANGED <<pre, moves, viewIndex, arrowsVars, titleVars>>

\* The recorders called in any order while a move is constructed, the
\* gamefile being written by nothing but the local recorders, and the
\* local forward replay of the move.
NextConstruction ==
    \/ createCheckState
    \/ createAttackersState
    \/ createEnPassantState
    \/ createSpecialRightsState
    \/ createMoveRuleState
    \/ applyMoveLocalForward

SpecConstruction == Init /\ [][NextConstruction]_vars

(* ------------------------------------------------------------------ *)
(* C21  Construction agrees with replay                                 *)
(* ------------------------------------------------------------------ *)

\* C21: while a move is constructed by the recorders, with nothing else
\* writing the gamefile, gamefile.inCheck and gamefile.attackers already
\* equal what applyMove(forward = true, globalChange = false) produces, and
\* that call leaves the whole gamefile as it is.
C21_ConstructionAgreesWithReplay ==
    LET r == ApplyMove(gamefile, move, TRUE, FALSE) IN
    /\ r.gamefile.inCheck = gamefile.inCheck
    /\ r.gamefile.attackers = gamefile.attackers
    /\ r.gamefile = gamefile

\* The local forward replay has run on a move constructed with a check
\* record and an attackers record that both changed the gamefile.
C21_Witness ==
    /\ IsApplyMove(lastOp, TRUE, FALSE)
    /\ Len(calls) = 2
    /\ OfType(move.state.local, "check") # {}
    /\ OfType(move.state.local, "attackers") # {}
    /\ gamefile.inCheck # pre.inCheck
    /\ gamefile.attackers # pre.attackers

(* ------------------------------------------------------------------ *)
(* C22  Frame of replay                                                 *)
(* ------------------------------------------------------------------ *)

\* The move holds a record of the type in the scope of the call: local
\* records always are, global ones only with globalChange.
InScope(mv, type, globalChange) ==
    \/ OfType(mv.state.local, type) # {}
    \/ globalChange /\ OfType(mv.state.global, type) # {}

\* The move holds a special-rights record of the square in the scope of
\* the call.
KeyInScope(mv, coordsKey, globalChange) ==
    globalChange /\ OfKey(mv.state.global, coordsKey) # {}

\* C22: an applyMove call, in either direction, leaves every tracked field
\* of the gamefile for which the move holds no record in the requested
\* scope, and every special-rights square named by no record in scope, at
\* the value it had before the call.
C22_FrameOfReplay ==
    [][lastOp'.name = "applyMove" =>
          LET globalChange == lastOp'.globalChange IN
          /\ ~InScope(move, "check", globalChange) => gamefile'.inCheck = gamefile.inCheck
          /\ ~InScope(move, "attackers", globalChange) =>
                gamefile'.attackers = gamefile.attackers
          /\ ~InScope(move, "enpassant", globalChange) =>
                gamefile'.enpassant = gamefile.enpassant
          /\ ~InScope(move, "moverulestate", globalChange) =>
                gamefile'.moveRuleState = gamefile.moveRuleState
          /\ \A coordsKey \in CoordsKeys :
                ~KeyInScope(move, coordsKey, globalChange) =>
                    (coordsKey \in gamefile'.specialRights
                        <=> coordsKey \in gamefile.specialRights)]_vars

\* A local+global forward traversal has run on a move holding a check
\* record and a special-rights record of one square, both of which changed
\* the gamefile, and no attackers record, no en-passant record and no
\* record of the other square, which all hold what they held at the start.
C22_Witness ==
    /\ IsApplyMove(lastOp, TRUE, TRUE)
    /\ OfType(move.state.local, "check") # {}
    /\ OfKey(move.state.global, "1,1") # {}
    /\ ~InScope(move, "attackers", TRUE)
    /\ ~InScope(move, "enpassant", TRUE)
    /\ ~KeyInScope(move, "5,1", TRUE)
    /\ gamefile.inCheck # pre.inCheck
    /\ "1,1" \in gamefile.specialRights /\ "1,1" \notin pre.specialRights
    /\ gamefile.attackers = pre.attackers
    /\ gamefile.enpassant = pre.enpassant
    /\ "5,1" \in gamefile.specialRights

(* ------------------------------------------------------------------ *)
(* arrows: the indicators of off-screen pieces                          *)
(* ------------------------------------------------------------------ *)

\* The pieces an arrow indicator may point to, by the key of their coords.
PieceKeys == {"1,8", "3,4"}

\* What createModel_ColorTextured / createModel_Colored return.
BufferModel == "BufferModel"

\* The variables of the closure, taken together.
Arrows ==
    [model |-> model, modelArrows |-> modelArrows, mode |-> mode, hovering |-> hovering,
     hippogonalRidersHoveredOver |-> hippogonalRidersHoveredOver]

\* setMode(value)
SetMode(a, value) ==
    IF value = 0
    THEN [a EXCEPT !.mode = value, !.hippogonalRidersHoveredOver = {}]
    ELSE [a EXCEPT !.mode = value]

\* Clears model only together with modelArrows, past the zoom test.
Update_ClearsModelLate(a, zoomedOut, shown, hoveredNow, riders) ==
    IF a.mode = 0 THEN a
    ELSE IF zoomedOut THEN [a EXCEPT !.modelArrows = Undefined]
    ELSE LET cleared == [a EXCEPT !.model = Undefined, !.modelArrows = Undefined,
                                  !.hovering = hoveredNow # {}]
         IN  IF shown = {} THEN cleared
             ELSE [cleared EXCEPT
                     !.hippogonalRidersHoveredOver = (@ \cap hoveredNow) \cup riders,
                     !.model = BufferModel,
                     !.modelArrows = BufferModel]

\* update(): zoomedOut is the outcome of the scale test; shown are the
\* pieces concatData is called for (data is empty exactly when there are
\* none); hoveredNow those whose indicator the mouse is over; riders those
\* of them for which onHippogonalIndicatorHover passes both of its
\* direction tests.
Update(a, zoomedOut, shown, hoveredNow, riders) ==
    IF a.mode = 0 THEN a
    ELSE LET noModel == [a EXCEPT !.model = Undefined] IN
         IF zoomedOut THEN noModel
         ELSE LET cleared == [noModel EXCEPT !.modelArrows = Undefined,
                                             !.hovering = hoveredNow # {}]
              IN  IF shown = {} THEN cleared
                  ELSE [cleared EXCEPT
                          !.hippogonalRidersHoveredOver = (@ \cap hoveredNow) \cup riders,
                          !.model = BufferModel,
                          !.modelArrows = BufferModel]

\* The return update() leaves by.
UpdatePath(a, zoomedOut, shown) ==
    IF a.mode = 0 THEN "off"
    ELSE IF zoomedOut THEN "zoomedOut"
    ELSE IF shown = {} THEN "noArrows"
    ELSE "drawn"

\* renderThem(): the models render() is called on, in order.
RenderThem(a) ==
    IF a.mode = 0 THEN <<>>
    ELSE IF a.model = Undefined THEN <<>>
    ELSE <<a.model, a.modelArrows>>

\* isMouseHovering()
IsMouseHovering == hovering

\* The closure's variables after a call.
ArrowsBecome(a) ==
    /\ model' = a.model
    /\ modelArrows' = a.modelArrows
    /\ mode' = a.mode
    /\ hovering' = a.hovering
    /\ hippogonalRidersHoveredOver' = a.hippogonalRidersHoveredOver

\* What the arrows script leaves alone.
NotOfArrows == <<gamefile, move, pre, calls, moves, viewIndex, titleVars>>

setMode ==
    \E value \in {0, 1, 2} :
        /\ ArrowsBecome(SetMode(Arrows, value))
        /\ lastOp' = [name |-> "setMode", value |-> value]
        /\ UNCHANGED <<frame, NotOfArrows>>

update ==
    \E zoomedOut \in BOOLEAN, shown \in SUBSET PieceKeys :
        \E hoveredNow \in SUBSET shown :
            \E riders \in SUBSET hoveredNow :
                LET path == UpdatePath(Arrows, zoomedOut, shown) IN
                /\ ArrowsBecome(Update(Arrows, zoomedOut, shown, hoveredNow, riders))
                /\ frame' = [path |-> path,
                             hovered |-> IF path \in {"noArrows", "drawn"}
                                         THEN hoveredNow ELSE {}]
                /\ lastOp' = [name |-> "update"]
                /\ UNCHANGED NotOfArrows

renderThem ==
    /\ lastOp' = [name |-> "renderThem", rendered |-> RenderThem(Arrows)]
    /\ UNCHANGED <<arrowsVars, NotOfArrows>>

InitArrows == Init

NextArrows ==
    \/ setMode
    \/ update
    \/ renderThem

SpecArrows == InitArrows /\ [][NextArrows]_vars

(* ------------------------------------------------------------------ *)
(* C23  The arrow hover flag is never stale                             *)
(* ------------------------------------------------------------------ *)

\* The last call was setMode(value).
IsSetMode(op, value) == op.name = "setMode" /\ op.value = value

\* C23: after any sequence of setMode and update calls, isMouseHovering()
\* returns true only if the indicators are on (mode is not 0) and the most
\* recent update() found the mouse over an arrow indicator; right after
\* setMode(0), and right after an update() that returned early because the
\* board is zoomed out past the render limit, it returns false.
C23_HoverFlagNeverStale ==
    /\ IsMouseHovering => (mode # 0 /\ frame.hovered # {})
    /\ IsSetMode(lastOp, 0) => ~IsMouseHovering
    /\ (lastOp.name = "update" /\ frame.path = "zoomedOut") => ~IsMouseHovering

(* ------------------------------------------------------------------ *)
(* C24  Hovered hippogonal riders are pruned every frame                *)
(* ------------------------------------------------------------------ *)

\* C24: right after an update() call made with mode not 0, whichever
\* return it left by, hippogonalRidersHoveredOver holds only riders whose
\* arrow indicator was hovered during that update.
C24_RidersPrunedEveryFrame ==
    (lastOp.name = "update" /\ frame.path # "off") =>
        hippogonalRidersHoveredOver \subseteq frame.hovered

(* ------------------------------------------------------------------ *)
(* C26  The two arrow models are defined together                       *)
(* ------------------------------------------------------------------ *)

\* C26: after any sequence of setMode, update and renderThem calls,
\* whenever mode is not 0 and model is set, modelArrows is set as well, and
\* renderThem() has never called render() on an undefined model.
C26_ModelsDefinedTogether ==
    /\ (mode # 0 /\ model # Undefined) => modelArrows # Undefined
    /\ lastOp.name = "renderThem" =>
          \A i \in 1..Len(lastOp.rendered) : lastOp.rendered[i] # Undefined

\* renderThem() has rendered both models with the indicators on, the most
\* recent update() having returned at once because they were off then.
C26_Witness ==
    /\ lastOp.name = "renderThem"
    /\ Len(lastOp.rendered) = 2
    /\ mode # 0
    /\ frame.path = "off"

\* renderThem() has rendered nothing after an update() that returned early
\* at the zoom test and left the modelArrows of an earlier frame in place.
C26_WitnessZoomedOut ==
    /\ lastOp.name = "renderThem"
    /\ lastOp.rendered = <<>>
    /\ mode # 0
    /\ frame.path = "zoomedOut"
    /\ model = Undefined
    /\ modelArrows # Undefined

(* ------------------------------------------------------------------ *)
(* guititle: the title screen                                           *)
(* ------------------------------------------------------------------ *)

\* The elements the title screen works on, taken together.
Title ==
    [titleElement |-> titleElement,
     element_menuExternalLinks |-> element_menuExternalLinks,
     element_play |-> element_play,
     element_guide |-> element_guide,
     element_boardEditor |-> element_boardEditor,
     opened |-> opened]

\* initListeners(): addEventListener adds a listener an element does not
\* have yet, and is without effect otherwise.
InitListeners(t) ==
    [t EXCEPT !.element_play = @ \cup {"callback_Play"},
              !.element_guide = @ \cup {"callback_Guide"},
              !.element_boardEditor = @ \cup {"displayStatus_FeaturePlanned"}]

\* closeListeners()
CloseListeners(t) ==
    [t EXCEPT !.element_play = @ \ {"callback_Play"},
              !.element_guide = @ \ {"callback_Guide"},
              !.element_boardEditor = @ \ {"displayStatus_FeaturePlanned"}]

\* open()
Open(t) ==
    InitListeners([t EXCEPT !.titleElement = @ \ {"hidden"},
                            !.element_menuExternalLinks = @ \ {"hidden"}])

\* Hides the two elements and leaves the listeners attached.
Close_KeepsListeners(t) ==
    [t EXCEPT !.titleElement = @ \cup {"hidden"},
              !.element_menuExternalLinks = @ \cup {"hidden"}]

\* close()
Close(t) ==
    CloseListeners([t EXCEPT !.titleElement = @ \cup {"hidden"},
                             !.element_menuExternalLinks = @ \cup {"hidden"}])

\* screen.open(), called from the title screen: the call, with the class
\* list of the title and the title's listeners as they are at that moment.
OpenScreen(t, screen) ==
    [t EXCEPT !.opened = Append(@, [screen |-> screen,
                                    titleElement |-> t.titleElement,
                                    listeners |-> t.element_play \cup t.element_guide
                                                    \cup t.element_boardEditor])]

\* callback_Play(event)
Callback_Play(t) == OpenScreen(Close(t), "guiplay")

\* callback_Guide(event)
Callback_Guide(t) == OpenScreen(Close(t), "guiguide")

\* A click event on an element: its listeners are called, if it has any.
Click(t, target) ==
    CASE target = "play" ->
            IF "callback_Play" \in t.element_play THEN Callback_Play(t) ELSE t
      [] target = "rules" ->
            IF "callback_Guide" \in t.element_guide THEN Callback_Guide(t) ELSE t
      [] target = "board-editor" -> t

\* The elements after a call.
TitleBecomes(t) ==
    /\ titleElement' = t.titleElement
    /\ element_menuExternalLinks' = t.element_menuExternalLinks
    /\ element_play' = t.element_play
    /\ element_guide' = t.element_guide
    /\ element_boardEditor' = t.element_boardEditor
    /\ opened' = t.opened

\* What the title screen leaves alone.
NotOfTitle == <<gamefile, move, pre, calls, moves, viewIndex, arrowsVars>>

open ==
    /\ TitleBecomes(Open(Title))
    /\ lastOp' = [name |-> "open"]
    /\ UNCHANGED NotOfTitle

close ==
    /\ TitleBecomes(Close(Title))
    /\ lastOp' = [name |-> "close"]
    /\ UNCHANGED NotOfTitle

click ==
    \E target \in {"play", "rules", "board-editor"} :
        /\ Len(opened) < MaxOpened
        /\ TitleBecomes(Click(Title, target))
        /\ lastOp' = [name |-> "click", target |-> target]
        /\ UNCHANGED NotOfTitle

InitTitle == Init

NextTitle ==
    \/ open
    \/ close
    \/ click

SpecTitle == InitTitle /\ [][NextTitle]_vars

(* ------------------------------------------------------------------ *)
(* C25  The title screen's listeners track its visibility               *)
(* ------------------------------------------------------------------ *)

\* The title element and the external-links element are both visible.
TitleVisible(t) ==
    "hidden" \notin t.titleElement /\ "hidden" \notin t.element_menuExternalLinks

\* Both are hidden.
TitleHidden(t) ==
    "hidden" \in t.titleElement /\ "hidden" \in t.element_menuExternalLinks

\* The click listeners on play, guide and board-editor are all attached.
ListenersAttached(t) ==
    /\ "callback_Play" \in t.element_play
    /\ "callback_Guide" \in t.element_guide
    /\ "displayStatus_FeaturePlanned" \in t.element_boardEditor

\* None of them is.
ListenersDetached(t) ==
    t.element_play = {} /\ t.element_guide = {} /\ t.element_boardEditor = {}

\* The title as a call leaves it.
TitleAfter ==
    [titleElement |-> titleElement',
     element_menuExternalLinks |-> element_menuExternalLinks',
     element_play |-> element_play',
     element_guide |-> element_guide',
     element_boardEditor |-> element_boardEditor',
     opened |-> opened']

\* The screen a click on the element opens.
ScreenOf(target) == IF target = "play" THEN "guiplay" ELSE "guiguide"

\* C25: starting from a hidden title with no listeners, every open(),
\* close() and click leaves the three click listeners attached exactly when
\* the title element and the external-links element are visible, and
\* detached when they are hidden; a click on play or guide while the
\* listeners are attached hides the title, detaches all three listeners and
\* then, with the title hidden and nothing attached, opens the play or the
\* guide screen, and opens nothing else.
C25_ListenersTrackVisibility ==
    [][/\ \/ TitleVisible(TitleAfter) /\ ListenersAttached(TitleAfter)
          \/ TitleHidden(TitleAfter) /\ ListenersDetached(TitleAfter)
       /\ (/\ lastOp'.name = "click"
           /\ lastOp'.target \in {"play", "rules"}
           /\ ListenersAttached(Title)) =>
              /\ TitleHidden(TitleAfter)
              /\ ListenersDetached(TitleAfter)
              /\ opened' = Append(opened, [screen |-> ScreenOf(lastOp'.target),
                                           titleElement |-> {"hidden"},
                                           listeners |-> {}])]_vars

\* The title has been opened, left by a click on play, opened again and
\* left by a click on guide.
C25_Witness ==
    /\ lastOp.name = "click" /\ lastOp.target = "rules"
    /\ Len(opened) = 2
    /\ opened[1].screen = "guiplay"
    /\ opened[2].screen = "guiguide"
    /\ TitleHidden(Title)
    /\ ListenersDetached(Title)

\* The title is showing, its listeners attached, after a click on the
\* board-editor button.
C25_WitnessVisible ==
    /\ lastOp.name = "click" /\ lastOp.target = "board-editor"
    /\ TitleVisible(Title)
    /\ ListenersAttached(Title)
====
